---- MODULE Spec2Model ----
(***************************************************************************)
(* Model of the BookServer-API request handlers (src/main.go and its      *)
(* copies in src/authHandler/auth.go): the credential store, the book     *)
(* store, the chi route table, the seven handlers and the JWS signing of  *)
(* the session token (src/unnamed/part_002).                              *)
(*                                                                         *)
(* Spec serves one HTTP request per action, from routing to the response.  *)
(* SpecCmd puts the start command of the cmd package before it.  SpecConc  *)
(* runs the handlers in goroutines that interleave at their accesses to    *)
(* the two store maps.  SpecHandlers and SpecConcBound run updateBook and   *)
(* deleteBook with the URL parameter ISBN bound.  SpecSplit, SpecDemo and  *)
(* SpecSigner are the compact-serialization splitter and the signer cache  *)
(* of package jws and the goroutine demo.  Time is counted in seconds.     *)
(***************************************************************************)
EXTENDS Integers, Sequences, FiniteSets

VARIABLES
    credentialList,  \* CredentialDB: username -> password
    bookList,        \* BookDB: ISBN -> Book
    now,             \* the wall clock read by time.Now()
    req,             \* the request served last (with the clock its handler read)
    before,          \* the two stores as that request found them
    resp,            \* the response written for it
    ledger,          \* the catalogue a client infers from the 2xx responses
    cmdline,         \* the --port flag the server was started with
    listener,        \* the address http.ListenAndServe listens on
    workers,         \* the goroutines net/http runs the handlers in
    crashed,         \* the runtime stopped the process (fatal error)
    splitting,       \* a call of jws.SplitCompactReader: its reader and locals
    demo,            \* the goroutine demo: main, f2, f3, the channel, the WaitGroup
    signing          \* jws: the signer cache, its mutex and the calls in flight

\* the state of the server
serverVars ==
    <<credentialList, bookList, now, req, before, resp, ledger, cmdline,
      listener, workers, crashed>>

\* the state of the library calls and of the demo program
otherVars == <<splitting, demo, signing>>

vars ==
    <<credentialList, bookList, now, req, before, resp, ledger, cmdline,
      listener, workers, crashed, splitting, demo, signing>>

----------------------------------------------------------------------------
(* Bounds of the model *)

\* the clock takes the values 0..MaxSlack and TTL..TTL + MaxSlack
MaxSlack == 1

\* the longest author list a request carries
MaxAuthors == 1

\* the number of requests in flight at the same time
NumWorkers == 2

\* the longest input of the compact-serialization splitter, in bytes
MaxBytes == 5

\* the goroutines that call makeSigner or removeSigner, one call each
NumCallers == 3

----------------------------------------------------------------------------
(* Program constants *)

Minute == 60
TTLMinutes == 20
TTL == TTLMinutes * Minute

Secret == "this_is_my_secret_key"
HS256 == "HS256"
NoSignature == "none"

----------------------------------------------------------------------------
(* Finite maps (Go maps) *)

EmptyMap == << >>

Put(m, k, v) == [x \in (DOMAIN m) \cup {k} |-> IF x = k THEN v ELSE m[x]]

Delete(m, k) == [x \in (DOMAIN m) \ {k} |-> m[x]]

\* m[k] of a Go map with string values: the zero value when k is absent
Field(obj, k) == IF k \in DOMAIN obj THEN obj[k] ELSE ""

\* a slice-valued field: nil (length 0) when absent
SliceField(obj, k) == IF k \in DOMAIN obj THEN obj[k] ELSE << >>

----------------------------------------------------------------------------
(* Request bodies and encoding/json *)

\* A body is no JSON at all ("garbage", the empty body included), one JSON
\* object, or one JSON object followed by more non-blank data ("trailing").
\* An object is a function from the keys it carries to their values.
Garbage == [kind |-> "garbage", obj |-> EmptyMap]

Object(o) == [kind |-> "object", obj |-> o]

Trailing(o) == [kind |-> "trailing", obj |-> o]

\* json.NewDecoder(r.Body).Decode(&v): reads the first JSON value of the
\* stream and stops there; what follows it is not looked at.
DecoderErr(body) == body.kind = "garbage"

\* json.Unmarshal(body, &v): the whole body must be one JSON value.
UnmarshalErr(body) == body.kind # "object"

\* the fields of Credentials, absent keys left at the zero value
DecodeCredentials(obj) ==
    [Username |-> Field(obj, "username"), Password |-> Field(obj, "password")]

DecodeAuthor(obj) == [Name |-> Field(obj, "name"), Home |-> Field(obj, "home")]

DecodeAuthors(seq) == [i \in 1..Len(seq) |-> DecodeAuthor(seq[i])]

\* the fields of Book, absent keys left at the zero value
DecodeBook(obj) ==
    [Name    |-> Field(obj, "name"),
     Authors |-> DecodeAuthors(SliceField(obj, "authors")),
     ISBN    |-> Field(obj, "isbn"),
     Genre   |-> Field(obj, "genre"),
     Pub     |-> Field(obj, "pub")]

EncodeAuthor(a) == [name |-> a.Name, home |-> a.Home]

EncodeBook(b) ==
    [name    |-> b.Name,
     authors |-> [i \in 1..Len(b.Authors) |-> EncodeAuthor(b.Authors[i])],
     isbn    |-> b.ISBN,
     genre   |-> b.Genre,
     pub     |-> b.Pub]

\* json.NewEncoder(w).Encode(bookList): one JSON object, a member per key
EncodeBookDB(db) == [k \in DOMAIN db |-> EncodeBook(db[k])]

----------------------------------------------------------------------------
(* Init() of the data package *)

author1 == [Name |-> "Sadia Sornaly", Home |-> "Korea"]

author2 == [Name |-> "Shahana", Home |-> "America"]

book1 ==
    [Name |-> "Book 1", Authors |-> <<author1, author2>>, ISBN |-> "ISBN 1",
     Genre |-> "Thriller", Pub |-> "Unknown"]

book2 ==
    [Name |-> "Book 2", Authors |-> <<author1>>, ISBN |-> "ISBN 2",
     Genre |-> "Science Fiction", Pub |-> "Tor Books"]

\* faulty variant: the two passwords exchanged
InitCredentialList_swapped == Put(Put(EmptyMap, "sabnaj", "5678"), "Admin", "1234")

InitCredentialList == Put(Put(EmptyMap, "sabnaj", "1234"), "Admin", "5678")

InitBookList == Put(Put(EmptyMap, book1.ISBN, book1), book2.ISBN, book2)

----------------------------------------------------------------------------
(* Responses *)

NoCookies == {}

\* a response: the status line, the text written to the body, the JSON value
\* written to the body (getAllBooks only) and the Set-Cookie headers
Response(code, text, json, cookies) ==
    [status |-> code, text |-> text, json |-> json, cookies |-> cookies]

\* http.Error(w, text, code)
Error(text, code) == Response(code, text, EmptyMap, NoCookies)

\* what a handler leaves behind: the response, the two stores, and in at
\* what time.Now() returned to it (0 when it did not read the clock)
Result(r, cl, bl) ==
    [resp |-> r, credentialList |-> cl, bookList |-> bl, at |-> 0]

\* the result of a handler that read the clock at t
At(t, result) == [result EXCEPT !.at = t]

----------------------------------------------------------------------------
(* The session token: jwt.NewBuilder()...Build() and jwt.Sign, which hands *)
(* the serialized claims to jws.Sign                                       *)

\* the HMAC of data under key, as a symbolic value: equal MACs come only
\* from equal algorithm, key and data
Hmac(alg, key, data) == <<"mac", alg, key, data>>

\* the protected header jws.Sign builds: only "alg" is set for a raw key
ProtectedHeader(alg) == [alg |-> alg]

\* jws.Sign(payload, jws.WithKey(alg, key)), compact serialization: the three
\* parts header, payload, signature (joined with "." on the wire)
JwsSign(payload, alg, key) ==
    IF alg = NoSignature
    THEN [err |-> TRUE, value |-> << >>]
    ELSE LET protected == ProtectedHeader(alg)
         IN  [err |-> FALSE,
              value |-> <<protected, payload,
                          Hmac(alg, key, <<protected, payload>>)>>]

\* jws.Verify(buf, jws.WithKey(alg, key)): the algorithm and the key are the
\* caller's, never the message's; the payload is returned on success
JwsVerify(buf, alg, key) ==
    IF Len(buf) # 3
    THEN [err |-> TRUE, payload |-> EmptyMap]
    ELSE IF buf[3] = Hmac(alg, key, <<buf[1], buf[2]>>)
         THEN [err |-> FALSE, payload |-> buf[2]]
         ELSE [err |-> TRUE, payload |-> EmptyMap]

\* faulty variant: the lifetime taken in hours, 20 * time.Hour
ExpirationTime_hours(t) == t + TTLMinutes * 60 * Minute

\* et := time.Now().Add(20 * time.Minute)
ExpirationTime(t) == t + TTL

\* jwt.NewBuilder().Audience([]string{"sabnaj"}).Expiration(et).Build()
BuildToken(et) == [err |-> FALSE, value |-> [aud |-> <<"sabnaj">>, exp |-> et]]

\* jwt.Sign(token, jwt.WithKey(jwa.HS256, Secret))
SignToken(token) == JwsSign(token, HS256, Secret)

\* Validate of the spec's Session Token Validator: Malformed, then
\* SignatureInvalid, then Expired when the current time exceeds the
\* expiration claim, else the claim set is accepted
Validate(tokenBytes, t) ==
    IF Len(tokenBytes) # 3 THEN "Malformed"
    ELSE IF JwsVerify(tokenBytes, HS256, Secret).err THEN "SignatureInvalid"
    ELSE IF t > tokenBytes[2].exp THEN "Expired"
    ELSE "Valid"

----------------------------------------------------------------------------
(* jws: SplitCompact and the loop of SplitCompactReader.  A byte slice is  *)
(* a sequence of one-character strings; indices are Go's, from 0.          *)

tokenDelim == "."

\* src[i:j]
Slice(src, i, j) == SubSeq(src, i + 1, j)

\* bytes.IndexByte(s, c): the index of the first c, -1 when there is none
IndexByte(s, c) ==
    LET hits == {i \in 0..Len(s) - 1 : s[i + 1] = c}
    IN  IF hits = {} THEN 0 - 1
        ELSE CHOOSE i \in hits : \A j \in hits : i <= j

\* bytes.Cut(s, sep) for the one-byte separator: before, after, found
Cut(s, sep) ==
    LET i == IndexByte(s, sep)
    IN  IF i = 0 - 1
        THEN [before |-> s, after |-> << >>, found |-> FALSE]
        ELSE [before |-> Slice(s, 0, i), after |-> Slice(s, i + 1, Len(s)),
              found |-> TRUE]

\* what the splitters return: the three parts and nil, or nil parts and an
\* error (`invalid number of segments`)
Parts(protected, payload, signature) ==
    [err |-> FALSE, protected |-> protected, payload |-> payload,
     signature |-> signature]

InvalidSegments ==
    [err |-> TRUE, protected |-> << >>, payload |-> << >>, signature |-> << >>]

\* faulty variant: what follows a third period is dropped, not refused
SplitCompact_lenient(src) ==
    LET c1 == Cut(src, tokenDelim) IN
    IF ~c1.found THEN InvalidSegments
    ELSE LET c2 == Cut(c1.after, tokenDelim) IN
    IF ~c2.found THEN InvalidSegments
    ELSE LET c3 == Cut(c2.after, tokenDelim) IN
         Parts(c1.before, c2.before, c3.before)

SplitCompact(src) ==
    LET c1 == Cut(src, tokenDelim) IN
    IF ~c1.found THEN InvalidSegments
    ELSE LET c2 == Cut(c1.after, tokenDelim) IN
    IF ~c2.found THEN InvalidSegments
    ELSE LET c3 == Cut(c2.after, tokenDelim) IN
    IF c3.found THEN InvalidSegments
    ELSE Parts(c1.before, c2.before, c3.before)

\* the locals of SplitCompactReader after the switch on state, for the
\* piece sofar[:i]
Capture(st, i) ==
    LET piece == Slice(st.sofar, 0, i) IN
    CASE st.state = 0 -> [st EXCEPT !.protected = piece, !.state = 1]
      [] st.state = 1 -> [st EXCEPT !.payload = piece, !.state = 2]
      [] OTHER        -> [st EXCEPT !.signature = piece]

\* if len(sofar) > i { sofar = sofar[i+1:] }
Shorten(st, i) ==
    IF Len(st.sofar) > i
    THEN [st EXCEPT !.sofar = Slice(st.sofar, i + 1, Len(st.sofar))]
    ELSE st

RECURSIVE ProcessBuffer_noRest(_, _)
\* faulty variant: at the end of input what is left in the buffer is not
\* captured
ProcessBuffer_noRest(st, eof) ==
    LET i == IndexByte(st.sofar, tokenDelim) IN
    IF i = 0 - 1 THEN st
    ELSE ProcessBuffer_noRest(
             Shorten(Capture([st EXCEPT !.periods = st.periods + 1], i), i), eof)

RECURSIVE ProcessBuffer(_, _)
\* the inner loop (for loop := true; loop; ...): every '.' of the buffer is
\* taken in turn; with none left the loop ends, after capturing the rest of
\* the buffer when the read returned io.EOF
ProcessBuffer(st, eof) ==
    LET i == IndexByte(st.sofar, tokenDelim) IN
    IF i = 0 - 1 /\ ~eof THEN st
    ELSE IF i = 0 - 1
    THEN Shorten(Capture(st, Len(st.sofar)), Len(st.sofar))
    ELSE ProcessBuffer(
             Shorten(Capture([st EXCEPT !.periods = st.periods + 1], i), i), eof)

----------------------------------------------------------------------------
(* authHandler: Login, Logout, SignIn.  r is the routed request, cl and bl *)
(* the stores before the call, t the clock.                                *)

\* faulty variant: the password comparison left out
LoginWith_anyPassword(r, cl, bl, t, buildFails, signFails) ==
    IF DecoderErr(r.body)
    THEN Result(Error("Cannot decode data", 400), cl, bl)
    ELSE LET cred == DecodeCredentials(r.body.obj) IN
    IF cred.Username \notin DOMAIN cl
    THEN Result(Error("User not found", 404), cl, bl)
    ELSE LET et == ExpirationTime(t)
             token == BuildToken(et)
         IN
    IF token.err \/ buildFails
    THEN Result(Error("Cannot create token", 500), cl, bl)
    ELSE LET signed == SignToken(token.value) IN
    IF signed.err \/ signFails
    THEN Result(Error("Cannot sign token", 500), cl, bl)
    ELSE At(t, Result(Response(200, "Login successful", EmptyMap,
                               {[Name |-> "jwt", Value |-> signed.value,
                                 Expires |-> et]}),
                      cl, bl))

\* faulty variant: the token issued and the cookie set before the password is compared
LoginWith_cookieBeforeCheck(r, cl, bl, t, buildFails, signFails) ==
    IF DecoderErr(r.body)
    THEN Result(Error("Cannot decode data", 400), cl, bl)
    ELSE LET cred == DecodeCredentials(r.body.obj) IN
    IF cred.Username \notin DOMAIN cl
    THEN Result(Error("User not found", 404), cl, bl)
    ELSE LET et == ExpirationTime(t)
             token == BuildToken(et)
         IN
    IF token.err \/ buildFails
    THEN Result(Error("Cannot create token", 500), cl, bl)
    ELSE LET signed == SignToken(token.value)
             cookie == [Name |-> "jwt", Value |-> signed.value, Expires |-> et]
         IN
    IF signed.err \/ signFails
    THEN Result(Error("Cannot sign token", 500), cl, bl)
    ELSE IF cl[cred.Username] # cred.Password
    THEN At(t, Result(Response(404, "Wrong password", EmptyMap, {cookie}),
                      cl, bl))
    ELSE At(t, Result(Response(200, "Login successful", EmptyMap, {cookie}),
                      cl, bl))

\* faulty variant: the cookie's Expires set to time.Now(), as Logout does
LoginWith_expiresNow(r, cl, bl, t, buildFails, signFails) ==
    IF DecoderErr(r.body)
    THEN Result(Error("Cannot decode data", 400), cl, bl)
    ELSE LET cred == DecodeCredentials(r.body.obj) IN
    IF cred.Username \notin DOMAIN cl
    THEN Result(Error("User not found", 404), cl, bl)
    ELSE IF cl[cred.Username] # cred.Password
    THEN Result(Error("Wrong password", 404), cl, bl)
    ELSE LET et == ExpirationTime(t)
             token == BuildToken(et)
         IN
    IF token.err \/ buildFails
    THEN Result(Error("Cannot create token", 500), cl, bl)
    ELSE LET signed == SignToken(token.value) IN
    IF signed.err \/ signFails
    THEN Result(Error("Cannot sign token", 500), cl, bl)
    ELSE At(t, Result(Response(200, "Login successful", EmptyMap,
                               {[Name |-> "jwt", Value |-> signed.value,
                                 Expires |-> t]}),
                      cl, bl))

\* faulty variant: the session is recorded on the server, in the credential map
LoginWith_recordsSession(r, cl, bl, t, buildFails, signFails) ==
    IF DecoderErr(r.body)
    THEN Result(Error("Cannot decode data", 400), cl, bl)
    ELSE LET cred == DecodeCredentials(r.body.obj) IN
    IF cred.Username \notin DOMAIN cl
    THEN Result(Error("User not found", 404), cl, bl)
    ELSE IF cl[cred.Username] # cred.Password
    THEN Result(Error("Wrong password", 404), cl, bl)
    ELSE LET et == ExpirationTime(t)
             token == BuildToken(et)
         IN
    IF token.err \/ buildFails
    THEN Result(Error("Cannot create token", 500), cl, bl)
    ELSE LET signed == SignToken(token.value) IN
    IF signed.err \/ signFails
    THEN Result(Error("Cannot sign token", 500), cl, bl)
    ELSE At(t, Result(Response(200, "Login successful", EmptyMap,
                               {[Name |-> "jwt", Value |-> signed.value,
                                 Expires |-> et]}),
                      Put(cl, "session", cred.Username), bl))

\* faulty variant: the audience of the token is the user who logged in
LoginWith_audienceUser(r, cl, bl, t, buildFails, signFails) ==
    IF DecoderErr(r.body)
    THEN Result(Error("Cannot decode data", 400), cl, bl)
    ELSE LET cred == DecodeCredentials(r.body.obj) IN
    IF cred.Username \notin DOMAIN cl
    THEN Result(Error("User not found", 404), cl, bl)
    ELSE IF cl[cred.Username] # cred.Password
    THEN Result(Error("Wrong password", 404), cl, bl)
    ELSE LET et == ExpirationTime(t)
             token == [err |-> FALSE,
                       value |-> [aud |-> <<cred.Username>>, exp |-> et]]
         IN
    IF token.err \/ buildFails
    THEN Result(Error("Cannot create token", 500), cl, bl)
    ELSE LET signed == SignToken(token.value) IN
    IF signed.err \/ signFails
    THEN Result(Error("Cannot sign token", 500), cl, bl)
    ELSE At(t, Result(Response(200, "Login successful", EmptyMap,
                               {[Name |-> "jwt", Value |-> signed.value,
                                 Expires |-> et]}),
                      cl, bl))

\* Login with the outcome of its two library calls made explicit: buildFails
\* and signFails say whether Build() and jwt.Sign() return an error
LoginWith(r, cl, bl, t, buildFails, signFails) ==
    IF DecoderErr(r.body)
    THEN Result(Error("Cannot decode data", 400), cl, bl)
    ELSE LET cred == DecodeCredentials(r.body.obj) IN
    IF cred.Username \notin DOMAIN cl
    THEN Result(Error("User not found", 404), cl, bl)
    ELSE IF cl[cred.Username] # cred.Password
    THEN Result(Error("Wrong password", 404), cl, bl)
    ELSE LET et == ExpirationTime(t)
             token == BuildToken(et)
         IN
    IF token.err \/ buildFails
    THEN Result(Error("Cannot create token", 500), cl, bl)
    ELSE LET signed == SignToken(token.value) IN
    IF signed.err \/ signFails
    THEN Result(Error("Cannot sign token", 500), cl, bl)
    ELSE At(t, Result(Response(200, "Login successful", EmptyMap,
                               {[Name |-> "jwt", Value |-> signed.value,
                                 Expires |-> et]}),
                      cl, bl))

\* neither call fails for the claims, the algorithm and the key Login passes
Login(r, cl, bl, t) == LoginWith(r, cl, bl, t, FALSE, FALSE)

\* faulty variant: the cookie given the lifetime of a session
Logout_expiresLater(r, cl, bl, t) ==
    At(t, Result(Response(200, "", EmptyMap,
                          {[Name |-> "jwt", Value |-> << >>,
                            Expires |-> ExpirationTime(t)]}),
                 cl, bl))

\* the cookie's Value is left at the zero value: the empty string
Logout(r, cl, bl, t) ==
    At(t, Result(Response(200, "", EmptyMap,
                          {[Name |-> "jwt", Value |-> << >>, Expires |-> t]}),
                 cl, bl))

\* faulty variant: the existence check left out
SignIn_noExistenceCheck(r, cl, bl, t) ==
    IF r.method # "POST"
    THEN Result(Error("Invalid request method", 405), cl, bl)
    ELSE IF UnmarshalErr(r.body)
    THEN Result(Error("Invalid JSON format", 400), cl, bl)
    ELSE LET user == DecodeCredentials(r.body.obj) IN
         Result(Response(201, "registered successfully", EmptyMap, NoCookies),
                Put(cl, user.Username, user.Password), bl)

SignIn(r, cl, bl, t) ==
    IF r.method # "POST"
    THEN Result(Error("Invalid request method", 405), cl, bl)
    ELSE IF UnmarshalErr(r.body)
    THEN Result(Error("Invalid JSON format", 400), cl, bl)
    ELSE LET user == DecodeCredentials(r.body.obj) IN
    IF user.Username \in DOMAIN cl
    THEN Result(Error("User already exists", 409), cl, bl)
    ELSE Result(Response(201, "registered successfully", EmptyMap, NoCookies),
                Put(cl, user.Username, user.Password), bl)

----------------------------------------------------------------------------
(* apiHandler: getAllBooks, AddNewBook, deleteBook, updateBook *)

\* chi.URLParam(r, key): the value the matched pattern bound to {key}, the
\* empty string when the pattern has no such placeholder
URLParam(r, key) == Field(r.params, key)

\* faulty variant: the books of Init encoded in place of the store
getAllBooks_initial(r, cl, bl, t) ==
    Result(Response(200, "", EncodeBookDB(InitBookList), NoCookies), cl, bl)

getAllBooks(r, cl, bl, t) ==
    Result(Response(200, "", EncodeBookDB(bl), NoCookies), cl, bl)

\* faulty variant: the author list not validated
AddNewBook_anyAuthors(r, cl, bl, t) ==
    IF DecoderErr(r.body)
    THEN Result(Error("Cannot decode data", 400), cl, bl)
    ELSE LET book == DecodeBook(r.body.obj) IN
    IF book.Name = "" \/ book.ISBN = ""
    THEN Result(Error("Invalid Data Entry", 400), cl, bl)
    ELSE IF book.ISBN \in DOMAIN bl
    THEN Result(Error("Book already exists", 409), cl, bl)
    ELSE Result(Response(201, "", EmptyMap, NoCookies),
                cl, Put(bl, book.ISBN, book))

\* faulty variant: the stored record overwritten before the conflict is reported
AddNewBook_overwrite(r, cl, bl, t) ==
    IF DecoderErr(r.body)
    THEN Result(Error("Cannot decode data", 400), cl, bl)
    ELSE LET book == DecodeBook(r.body.obj) IN
    IF book.Name = "" \/ book.ISBN = "" \/ Len(book.Authors) = 0
    THEN Result(Error("Invalid Data Entry", 400), cl, bl)
    ELSE IF book.ISBN \in DOMAIN bl
    THEN Result(Error("Book already exists", 409), cl, Put(bl, book.ISBN, book))
    ELSE Result(Response(201, "", EmptyMap, NoCookies),
                cl, Put(bl, book.ISBN, book))

\* faulty variant: the book is added only in a valid session
AddNewBook_sessionRequired(r, cl, bl, t) ==
    IF ~r.cookie.present \/ Validate(r.cookie.value, t) # "Valid"
    THEN Result(Error("Unauthorized", 401), cl, bl)
    ELSE IF DecoderErr(r.body)
    THEN Result(Error("Cannot decode data", 400), cl, bl)
    ELSE LET book == DecodeBook(r.body.obj) IN
    IF book.Name = "" \/ book.ISBN = "" \/ Len(book.Authors) = 0
    THEN Result(Error("Invalid Data Entry", 400), cl, bl)
    ELSE IF book.ISBN \in DOMAIN bl
    THEN Result(Error("Book already exists", 409), cl, bl)
    ELSE Result(Response(201, "", EmptyMap, NoCookies),
                cl, Put(bl, book.ISBN, book))

AddNewBook(r, cl, bl, t) ==
    IF DecoderErr(r.body)
    THEN Result(Error("Cannot decode data", 400), cl, bl)
    ELSE LET book == DecodeBook(r.body.obj) IN
    IF book.Name = "" \/ book.ISBN = "" \/ Len(book.Authors) = 0
    THEN Result(Error("Invalid Data Entry", 400), cl, bl)
    ELSE IF book.ISBN \in DOMAIN bl
    THEN Result(Error("Book already exists", 409), cl, bl)
    ELSE Result(Response(201, "", EmptyMap, NoCookies),
                cl, Put(bl, book.ISBN, book))

deleteBook(r, cl, bl, t) ==
    LET ISBN == URLParam(r, "ISBN") IN
    IF ISBN = ""
    THEN Result(Error("Invalid ISBN", 400), cl, bl)
    ELSE IF ISBN \notin DOMAIN bl
    THEN Result(Error("Book does not exist", 404), cl, bl)
    ELSE Result(Response(200, "", EmptyMap, NoCookies), cl, Delete(bl, ISBN))

\* faulty variant: the record stored under the ISBN of the body
updateBook_keyedByBody(r, cl, bl, t) ==
    LET ISBN == URLParam(r, "ISBN") IN
    IF ISBN = ""
    THEN Result(Error("Invalid ISBN", 400), cl, bl)
    ELSE IF ISBN \notin DOMAIN bl
    THEN Result(Error("Book does not exist", 404), cl, bl)
    ELSE IF DecoderErr(r.body)
    THEN Result(Error("Cannot decode data", 400), cl, bl)
    ELSE Result(Response(200, "Book updated successfully", EmptyMap, NoCookies),
                cl, Put(bl, DecodeBook(r.body.obj).ISBN, DecodeBook(r.body.obj)))

\* faulty variant: the body decoded before the ISBN is looked up
updateBook_decodeFirst(r, cl, bl, t) ==
    LET ISBN == URLParam(r, "ISBN") IN
    IF ISBN = ""
    THEN Result(Error("Invalid ISBN", 400), cl, bl)
    ELSE IF DecoderErr(r.body)
    THEN Result(Error("Cannot decode data", 400), cl, bl)
    ELSE IF ISBN \notin DOMAIN bl
    THEN Result(Error("Book does not exist", 404), cl, bl)
    ELSE Result(Response(200, "Book updated successfully", EmptyMap, NoCookies),
                cl, Put(bl, ISBN, DecodeBook(r.body.obj)))

updateBook(r, cl, bl, t) ==
    LET ISBN == URLParam(r, "ISBN") IN
    IF ISBN = ""
    THEN Result(Error("Invalid ISBN", 400), cl, bl)
    ELSE IF ISBN \notin DOMAIN bl
    THEN Result(Error("Book does not exist", 404), cl, bl)
    ELSE IF DecoderErr(r.body)
    THEN Result(Error("Cannot decode data", 400), cl, bl)
    ELSE Result(Response(200, "Book updated successfully", EmptyMap, NoCookies),
                cl, Put(bl, ISBN, DecodeBook(r.body.obj)))

----------------------------------------------------------------------------
(* The chi router as main() and RunServer() set it up *)

Route(method, pattern, handler) ==
    [method |-> method, pattern |-> pattern, handler |-> handler]

\* a path and a pattern are the sequences of their segments
Routes ==
    { Route("POST",   <<"signIn">>,     "SignIn"),
      Route("POST",   <<"login">>,      "Login"),
      Route("POST",   <<"logout">>,     "Logout"),
      Route("POST",   <<"newBook">>,    "AddNewBook"),
      Route("PUT",    <<"updateBook">>, "updateBook"),
      Route("DELETE", <<"deleteBook">>, "deleteBook"),
      Route("GET",    <<"getBooks">>,   "getAllBooks") }

\* the pattern segments chi reads as a placeholder, with the key each binds
Placeholders == [x \in {"{ISBN}"} |-> "ISBN"]

IsPlaceholder(seg) == seg \in DOMAIN Placeholders

\* a pattern matches a path of the same length whose segments equal the
\* pattern's literal segments; a placeholder takes any non-empty segment
Matches(pattern, path) ==
    /\ Len(pattern) = Len(path)
    /\ \A i \in 1..Len(pattern) :
          IF IsPlaceholder(pattern[i]) THEN path[i] # ""
          ELSE pattern[i] = path[i]

\* the URL parameters of the route context: one per placeholder of the pattern
URLParams(pattern, path) ==
    LET at == {i \in 1..Len(pattern) : IsPlaceholder(pattern[i])}
    IN  [k \in {Placeholders[pattern[i]] : i \in at} |->
            path[CHOOSE i \in at : Placeholders[pattern[i]] = k]]

Handle(handler, r, cl, bl, t) ==
    CASE handler = "SignIn"      -> SignIn(r, cl, bl, t)
      [] handler = "Login"       -> Login(r, cl, bl, t)
      [] handler = "Logout"      -> Logout(r, cl, bl, t)
      [] handler = "AddNewBook"  -> AddNewBook(r, cl, bl, t)
      [] handler = "updateBook"  -> updateBook(r, cl, bl, t)
      [] handler = "deleteBook"  -> deleteBook(r, cl, bl, t)
      [] handler = "getAllBooks" -> getAllBooks(r, cl, bl, t)

\* the mux: no pattern for the path is 404, a pattern but not for the method
\* is 405, else the route's handler runs with the pattern's URL parameters
Dispatch(r, cl, bl, t) ==
    LET byPath == {rt \in Routes : Matches(rt.pattern, r.path)}
        hit    == {rt \in byPath : rt.method = r.method}
    IN  IF byPath = {} THEN Result(Error("404 page not found", 404), cl, bl)
        ELSE IF hit = {} THEN Result(Error("", 405), cl, bl)
        ELSE LET rt == CHOOSE x \in hit : TRUE
             IN  Handle(rt.handler,
                        [method |-> r.method, path |-> r.path,
                         query |-> r.query, body |-> r.body,
                         cookie |-> r.cookie,
                         params |-> URLParams(rt.pattern, r.path)],
                        cl, bl, t)

----------------------------------------------------------------------------
(* The requests the clients send *)

\* the jwt cookie of a request: not sent, or sent with a value
NoCookie == [present |-> FALSE, value |-> << >>]

Cookie(value) == [present |-> TRUE, value |-> value]

Request(method, path, query, body) ==
    [method |-> method, path |-> path, query |-> query, body |-> body,
     cookie |-> NoCookie]

WithCookie(r, c) == [r EXCEPT !.cookie = c]

\* the claims of a session token that expires at et
Claims(et) == BuildToken(et).value

\* a token Login issued at time 0
IssuedToken == SignToken(Claims(ExpirationTime(0))).value

\* a token Login issued so long ago that it has expired at every time >= 0
ExpiredToken == SignToken(Claims(ExpirationTime(0 - TTL - 1))).value

\* an issued token whose expiration claim was moved, the signature kept
TamperedToken ==
    <<IssuedToken[1], Claims(ExpirationTime(TTL)), IssuedToken[3]>>

\* a token of the "none" algorithm: no signature at all
UnsignedToken == <<ProtectedHeader(NoSignature), Claims(ExpirationTime(0)), << >>>>

\* a token whose header names "none" and whose third part is the HS256 MAC
\* of its first two parts under the shared key
NoneHeaderToken ==
    LET protected == ProtectedHeader(NoSignature)
        payload   == Claims(ExpirationTime(0))
    IN  <<protected, payload, Hmac(HS256, Secret, <<protected, payload>>)>>

\* a token signed with HS256 under another key
ForeignToken == JwsSign(Claims(ExpirationTime(0)), HS256, "another_key").value

\* a value that is not three parts
MalformedToken == <<ProtectedHeader(HS256)>>

\* the jwt cookies a client sends: none, the one Logout leaves (empty value),
\* and one per token
Cookies ==
    {NoCookie, Cookie(<< >>)} \cup
    {Cookie(v) : v \in {IssuedToken, ExpiredToken, TamperedToken, UnsignedToken,
                        NoneHeaderToken, ForeignToken, MalformedToken}}

Merge(f, g) ==
    [x \in (DOMAIN f) \cup (DOMAIN g) |-> IF x \in DOMAIN f THEN f[x] ELSE g[x]]

\* JSON objects for Credentials: a registered and an unregistered user,
\* matching and differing passwords, keys left out
CredObjects ==
    { [username |-> "alice", password |-> "pw1"],
      [username |-> "alice", password |-> "1234"],
      [username |-> "sabnaj", password |-> "1234"],
      [username |-> "sabnaj", password |-> "pw1"],
      EmptyMap }

CredBodies ==
    {Garbage} \cup {Object(o) : o \in CredObjects}
              \cup {Trailing([username |-> "alice", password |-> "pw1"])}

Herbert == [name |-> "Herbert"]

Dune == [name |-> "Dune", isbn |-> "ISBN-9", authors |-> <<Herbert>>]

\* JSON objects for Book: each key present or not, the author list of any
\* length up to MaxAuthors; and books that differ from these in other fields
BookObjects ==
    { Merge(n, Merge(i, a)) :
        n \in {EmptyMap, [name |-> "Dune"]},
        i \in {EmptyMap} \cup {[isbn |-> x] : x \in {"ISBN 1", "ISBN-9"}},
        a \in {EmptyMap} \cup
              {[authors |-> [j \in 1..k |-> Herbert]] : k \in 0..MaxAuthors} }
      \cup { Merge(Dune, [genre |-> "SF"]),
             [name |-> "Emma", isbn |-> "ISBN-9", authors |-> <<Herbert>>],
             [name |-> "Emma", isbn |-> "ISBN 1", authors |-> <<Herbert>>] }

BookBodies == {Garbage, Trailing(Dune)} \cup {Object(o) : o \in BookObjects}

\* the ways a client names an ISBN for /updateBook and /deleteBook: as a
\* query parameter, as one more path segment, or not at all
NamedISBNs == {"ISBN 1", "ISBN-9"}

Targets(base) ==
    {[path |-> <<base>>, query |-> EmptyMap]}
        \cup {[path |-> <<base>>, query |-> [ISBN |-> i]] : i \in NamedISBNs}
        \cup {[path |-> <<base, i>>, query |-> EmptyMap] : i \in NamedISBNs}

UpdateBodies == {Garbage, Object(Dune)}

SignInRequests ==
    {Request("POST", <<"signIn">>, EmptyMap, b) : b \in CredBodies}
        \cup {Request("GET", <<"signIn">>, EmptyMap, Garbage)}

LoginRequests == {Request("POST", <<"login">>, EmptyMap, b) : b \in CredBodies}

\* the states of a session a book request is sent in: no cookie, the cookie
\* of a Login, an expired one, a tampered one, the one Logout leaves
SessionStates ==
    {NoCookie, Cookie(IssuedToken), Cookie(ExpiredToken), Cookie(TamperedToken),
     Cookie(<< >>)}

\* a logout with or without a body, with any cookie
LogoutRequests ==
    {WithCookie(Request("POST", <<"logout">>, EmptyMap, b), c) :
        b \in {Garbage, Object([username |-> "sabnaj", password |-> "1234"])},
        c \in Cookies}

GetBooksRequests ==
    {WithCookie(Request("GET", <<"getBooks">>, EmptyMap, Garbage), c) :
        c \in SessionStates}

NewBookRequests ==
    {Request("POST", <<"newBook">>, EmptyMap, b) : b \in BookBodies}
        \cup {WithCookie(Request("POST", <<"newBook">>, EmptyMap, Object(Dune)), c) :
                c \in SessionStates}

UpdateBookRequests ==
    {Request("PUT", x.path, x.query, b) :
        x \in Targets("updateBook"), b \in UpdateBodies}
        \cup {WithCookie(Request("PUT", <<"updateBook">>, [ISBN |-> "ISBN 1"],
                                 Object(Dune)), c) : c \in SessionStates}

DeleteBookRequests ==
    {Request("DELETE", x.path, x.query, Garbage) : x \in Targets("deleteBook")}
        \cup {WithCookie(Request("DELETE", <<"deleteBook">>, [ISBN |-> "ISBN 1"],
                                 Garbage), c) : c \in SessionStates}

----------------------------------------------------------------------------
(* Starting the server: main() of src/main.go, and the start command of   *)
(* the cmd package, which hands its --port flag to RunServer              *)

\* the default of the --port flag
DefaultPort == 8080

\* the port of main()'s ":8080" and of RunServer's "127.0.0.1:8080"
ListenPort == 8080

NotListening == [up |-> FALSE, host |-> "", port |-> 0]

\* http.ListenAndServe(addr, r)
ListenAndServe(addr) == [up |-> TRUE, host |-> addr.host, port |-> addr.port]

\* main(): http.ListenAndServe(":8080", r)
MainAddr == [host |-> "", port |-> ListenPort]

\* the command line of "start": no flag, or --port p
NoFlag == [given |-> FALSE, port |-> 0]

PortFlag(p) == [given |-> TRUE, port |-> p]

CmdLines == {NoFlag, PortFlag(DefaultPort), PortFlag(DefaultPort + 1)}

\* IntVarP(&port, "port", "p", 8080, ...): the flag's value, 8080 without it
ParsePort(flag) == IF flag.given THEN flag.port ELSE DefaultPort

\* RunServer(port): the address is a literal, port is not read
RunServer(port) == ListenAndServe([host |-> "127.0.0.1", port |-> ListenPort])

----------------------------------------------------------------------------
(* The state machine *)

\* no call of the splitter, the demo not started, the signer cache empty
NoSplit ==
    [pc |-> "idle", kind |-> "", src |-> << >>, rest |-> << >>, chunks |-> << >>,
     sofar |-> << >>, protected |-> << >>, payload |-> << >>,
     signature |-> << >>, periods |-> 0, state |-> 0, err |-> FALSE]

NoDemo ==
    [main |-> "idle", f2 |-> "idle", f3 |-> "idle", i |-> 0, wg |-> 0,
     clock |-> 0, f3wake |-> 0, mainwake |-> 0, a |-> 0,
     done |-> [g \in {"f2", "f3"} |-> 0]]

\* jws: the algorithms asked for, the callers, and a caller outside a call
Algs == {HS256, "RS256"}

Callers == 1..NumCallers

Unlocked == 0

NoSigner == 0

NoCall == [pc |-> "idle", op |-> "", alg |-> "", signer |-> NoSigner, gen |-> 0,
           err |-> FALSE]

\* var signers = make(map[jwa.SignatureAlgorithm]Signer); var muSigner.
\* History: made, the signers NewSigner has returned; removed, the number
\* of removeSigner calls per algorithm; unguarded, whether the map was ever
\* touched by a goroutine that did not hold the mutex.
NoSigning ==
    [mu |-> Unlocked, signers |-> EmptyMap, made |-> {},
     removed |-> [a \in Algs |-> 0], unguarded |-> FALSE,
     calls |-> [c \in Callers |-> NoCall]]

OtherInit ==
    /\ splitting = NoSplit
    /\ demo = NoDemo
    /\ signing = NoSigning

NoRequest ==
    [method |-> "", path |-> << >>, query |-> EmptyMap, body |-> Garbage,
     cookie |-> NoCookie, at |-> 0]

NoResponse == Response(0, "", EmptyMap, NoCookies)

Stores(cl, bl) == [credentialList |-> cl, bookList |-> bl]

\* net/http runs each request's handler in a goroutine of its own; the
\* handlers share the two package-level maps without a lock
Workers == 1..NumWorkers

NoWork == Request("", << >>, EmptyMap, Garbage)

\* a goroutine: where it stands in its handler (pc), the request, the handler
\* the router chose, the result of its map lookup, and its response
Worker(pc, r, handler, exists, rsp) ==
    [pc |-> pc, req |-> r, handler |-> handler, exists |-> exists, resp |-> rsp]

Idle == Worker("idle", NoWork, "", FALSE, NoResponse)

\* the ISBN a request names, in its query or as a path segment
NamedISBN(r) ==
    IF "ISBN" \in DOMAIN r.query THEN r.query["ISBN"]
    ELSE IF Len(r.path) = 2 THEN r.path[2]
    ELSE ""

\* what the responses tell a client of the catalogue: a 201 to /newBook adds
\* the submitted book, a 200 to /deleteBook removes the named one, a 200 to
\* /updateBook replaces the named one
Ledger(l, r, rsp) ==
    IF r.method = "POST" /\ r.path = <<"newBook">> /\ rsp.status = 201
    THEN Put(l, Field(r.body.obj, "isbn"), DecodeBook(r.body.obj))
    ELSE IF r.method = "DELETE" /\ r.path[1] = "deleteBook" /\ rsp.status = 200
    THEN Delete(l, NamedISBN(r))
    ELSE IF r.method = "PUT" /\ r.path[1] = "updateBook" /\ rsp.status = 200
    THEN Put(l, NamedISBN(r), DecodeBook(r.body.obj))
    ELSE l

\* the server of main(): Init() has run and the listener is up
ServerInit ==
    /\ credentialList = InitCredentialList
    /\ bookList = InitBookList
    /\ now = 0
    /\ req = NoRequest
    /\ before = Stores(InitCredentialList, InitBookList)
    /\ resp = NoResponse
    /\ ledger = InitBookList
    /\ cmdline = NoFlag
    /\ listener = ListenAndServe(MainAddr)
    /\ workers = [w \in Workers |-> Idle]
    /\ crashed = FALSE

Init == ServerInit /\ OtherInit

\* the handler of request r returned out: the stores and the response
Respond(r, out) ==
    /\ listener # NotListening
    /\ UNCHANGED <<cmdline, listener, workers, crashed>>
    /\ UNCHANGED otherVars
    /\ credentialList' = out.credentialList
    /\ bookList' = out.bookList
    /\ resp' = out.resp
    /\ req' = [method |-> r.method, path |-> r.path, query |-> r.query,
               body |-> r.body, cookie |-> r.cookie, at |-> out.at]
    /\ before' = Stores(credentialList, bookList)
    /\ ledger' = Ledger(ledger, r, out.resp)
    /\ now' = now

\* one request, from the router to the response
Serve(r) ==
    \E out \in {Dispatch(r, credentialList, bookList, now)} : Respond(r, out)

SignInReq == \E r \in SignInRequests : Serve(r)

LoginReq == \E r \in LoginRequests : Serve(r)

LogoutReq == \E r \in LogoutRequests : Serve(r)

GetBooksReq == \E r \in GetBooksRequests : Serve(r)

NewBookReq == \E r \in NewBookRequests : Serve(r)

UpdateBookReq == \E r \in UpdateBookRequests : Serve(r)

DeleteBookReq == \E r \in DeleteBookRequests : Serve(r)

\* time passes: a second (at most MaxSlack of them in a row), or the whole
\* lifetime of a token (once)
Tick ==
    /\ \/ now % TTL < MaxSlack /\ now' = now + 1
       \/ now < TTL /\ now' = now + TTL
    /\ UNCHANGED <<credentialList, bookList, req, before, resp, ledger,
                   cmdline, listener, workers, crashed>>
    /\ UNCHANGED otherVars

Next ==
    \/ SignInReq
    \/ LoginReq
    \/ LogoutReq
    \/ GetBooksReq
    \/ NewBookReq
    \/ UpdateBookReq
    \/ DeleteBookReq
    \/ Tick

Spec == Init /\ [][Next]_vars

----------------------------------------------------------------------------
(* The server of the cmd package: nothing listens and the stores are nil   *)
(* until the start command has run RunServer, which calls Init()           *)

InitCmd ==
    /\ credentialList = EmptyMap
    /\ bookList = EmptyMap
    /\ now = 0
    /\ req = NoRequest
    /\ before = Stores(EmptyMap, EmptyMap)
    /\ resp = NoResponse
    /\ ledger = EmptyMap
    /\ cmdline = NoFlag
    /\ listener = NotListening
    /\ workers = [w \in Workers |-> Idle]
    /\ crashed = FALSE
    /\ OtherInit

\* "start" with the flags of one command line
StartCmd ==
    \E flag \in CmdLines :
        /\ listener = NotListening
        /\ cmdline' = flag
        /\ listener' = RunServer(ParsePort(flag))
        /\ credentialList' = InitCredentialList
        /\ bookList' = InitBookList
        /\ before' = Stores(InitCredentialList, InitBookList)
        /\ ledger' = InitBookList
        /\ UNCHANGED <<now, req, resp, workers, crashed>>
        /\ UNCHANGED otherVars

NextCmd == StartCmd \/ Next

SpecCmd == InitCmd /\ [][NextCmd]_vars

----------------------------------------------------------------------------
(* updateBook and deleteBook as handlers: run with the URL parameter ISBN  *)
(* that chi.URLParam(r, "ISBN") reads bound to the ISBN the request names  *)
(* (empty when it names none), beside /newBook and /getBooks as routed     *)

\* request r with the route context binding ISBN to i
WithISBN(r, i) ==
    [method |-> r.method, path |-> r.path, query |-> r.query, body |-> r.body,
     cookie |-> r.cookie, params |-> [ISBN |-> i]]

\* bodies for updateBook: undecodable, a full book, a book of a name only
CallBodies == {Garbage, Object(Dune), Object([name |-> "Dune"])}

CallUpdateRequests ==
    {Request("PUT", x.path, x.query, b) :
        x \in Targets("updateBook"), b \in CallBodies}

CallDeleteRequests ==
    {Request("DELETE", x.path, x.query, Garbage) : x \in Targets("deleteBook")}

CallUpdateBook ==
    \E r \in CallUpdateRequests :
        \E out \in {updateBook(WithISBN(r, NamedISBN(r)), credentialList,
                               bookList, now)} : Respond(r, out)

CallDeleteBook ==
    \E r \in CallDeleteRequests :
        \E out \in {deleteBook(WithISBN(r, NamedISBN(r)), credentialList,
                               bookList, now)} : Respond(r, out)

NextHandlers ==
    \/ NewBookReq
    \/ GetBooksReq
    \/ CallUpdateBook
    \/ CallDeleteBook

SpecHandlers == Init /\ [][NextHandlers]_vars

----------------------------------------------------------------------------
(* The handlers as goroutines.  A goroutine takes a step at each access to *)
(* a store map, and an access has a beginning and an end.                  *)

\* the requests in flight: two registrations of one new user, a login of
\* that user, two different books under one new ISBN, and a listing
ConcRequests ==
    { Request("POST", <<"signIn">>, EmptyMap,
              Object([username |-> "alice", password |-> "pw1"])),
      Request("POST", <<"signIn">>, EmptyMap,
              Object([username |-> "alice", password |-> "1234"])),
      Request("POST", <<"login">>, EmptyMap,
              Object([username |-> "alice", password |-> "pw1"])),
      Request("POST", <<"newBook">>, EmptyMap, Object(Dune)),
      Request("POST", <<"newBook">>, EmptyMap,
              Object([name |-> "Emma", isbn |-> "ISBN-9", authors |-> <<Herbert>>])),
      Request("POST", <<"newBook">>, EmptyMap, Object([isbn |-> "ISBN-9"])),
      Request("GET", <<"getBooks">>, EmptyMap, Garbage) }

\* the handler the router runs for r, "" when no route takes it
Routed(r) ==
    LET hit == {rt \in Routes : Matches(rt.pattern, r.path) /\ rt.method = r.method}
    IN  IF hit = {} THEN "" ELSE (CHOOSE rt \in hit : TRUE).handler

\* the response a handler writes before it touches a store, status 0 when
\* it goes on to the store
Early(handler, r) ==
    CASE handler = "SignIn" ->
            IF r.method # "POST" THEN Error("Invalid request method", 405)
            ELSE IF UnmarshalErr(r.body) THEN Error("Invalid JSON format", 400)
            ELSE NoResponse
      [] handler = "Login" ->
            IF DecoderErr(r.body) THEN Error("Cannot decode data", 400)
            ELSE NoResponse
      [] handler = "AddNewBook" ->
            IF DecoderErr(r.body) THEN Error("Cannot decode data", 400)
            ELSE LET book == DecodeBook(r.body.obj) IN
            IF book.Name = "" \/ book.ISBN = "" \/ Len(book.Authors) = 0
            THEN Error("Invalid Data Entry", 400)
            ELSE NoResponse
      [] OTHER -> NoResponse

\* the map a handler works on
StoreOf(handler) ==
    IF handler \in {"SignIn", "Login"} THEN "credentialList" ELSE "bookList"

\* the key a goroutine looks up and inserts
KeyOf(wk) ==
    IF wk.handler = "AddNewBook" THEN DecodeBook(wk.req.body.obj).ISBN
    ELSE IF wk.handler \in {"updateBook", "deleteBook"} THEN NamedISBN(wk.req)
    ELSE DecodeCredentials(wk.req.body.obj).Username

\* a goroutine is inside a map access; inside a map write
Inside(wk) == wk.pc \in {"reading", "writing", "enumerating"}

Writing(wk) == wk.pc = "writing"

\* two goroutines inside accesses to one map, one of them a write
Conflict(a, b) ==
    /\ a # b
    /\ Inside(workers[a]) /\ Inside(workers[b])
    /\ StoreOf(workers[a].handler) = StoreOf(workers[b].handler)
    /\ Writing(workers[a]) \/ Writing(workers[b])

ConcFrame ==
    /\ UNCHANGED <<now, req, before, resp, ledger, cmdline, listener>>
    /\ UNCHANGED otherVars

\* the router hands a request to its handler, which runs up to its first
\* access to a store
Accept(w) ==
    \E r \in ConcRequests :
        LET handler == Routed(r)
            early   == Early(handler, r)
        IN  /\ ~crashed
            /\ workers[w].pc = "idle"
            /\ workers' =
                 [workers EXCEPT ![w] =
                    IF early.status # 0
                    THEN Worker("done", r, handler, FALSE, early)
                    ELSE Worker(IF handler = "getAllBooks" THEN "enum" ELSE "lookup",
                                r, handler, FALSE, NoResponse)]
            /\ UNCHANGED <<credentialList, bookList, crashed>>
            /\ ConcFrame

\* the lookup begins: credentialList[user.Username], bookList[book.ISBN]
BeginLookup(w) ==
    /\ ~crashed
    /\ workers[w].pc = "lookup"
    /\ workers' = [workers EXCEPT ![w].pc = "reading"]
    /\ UNCHANGED <<credentialList, bookList, crashed>>
    /\ ConcFrame

\* the lookup ends, and the handler runs on to its response or to its insert
EndLookup(w) ==
    LET wk     == workers[w]
        store  == IF StoreOf(wk.handler) = "credentialList"
                  THEN credentialList ELSE bookList
        exists == KeyOf(wk) \in DOMAIN store
    IN  /\ ~crashed
        /\ wk.pc = "reading"
        /\ wk.handler \in {"Login", "SignIn", "AddNewBook"}
        /\ workers' =
             [workers EXCEPT ![w] =
                CASE wk.handler = "Login" ->
                        Worker("done", wk.req, wk.handler, exists,
                               Login(wk.req, credentialList, bookList, now).resp)
                  [] wk.handler = "SignIn" /\ exists ->
                        Worker("done", wk.req, wk.handler, exists,
                               Error("User already exists", 409))
                  [] wk.handler = "AddNewBook" /\ exists ->
                        Worker("done", wk.req, wk.handler, exists,
                               Error("Book already exists", 409))
                  [] OTHER ->
                        Worker("insert", wk.req, wk.handler, exists, NoResponse)]
        /\ UNCHANGED <<credentialList, bookList, crashed>>
        /\ ConcFrame

\* the insert begins
BeginInsert(w) ==
    /\ ~crashed
    /\ workers[w].pc = "insert"
    /\ workers' = [workers EXCEPT ![w].pc = "writing"]
    /\ UNCHANGED <<credentialList, bookList, crashed>>
    /\ ConcFrame

\* the insert ends: credentialList[user.Username] = user.Password, or
\* bookList[book.ISBN] = book; then the 201
EndInsert(w) ==
    LET wk == workers[w] IN
    /\ ~crashed
    /\ wk.pc = "writing"
    /\ wk.handler \in {"SignIn", "AddNewBook"}
    /\ IF wk.handler = "SignIn"
       THEN /\ credentialList' =
                 Put(credentialList, KeyOf(wk),
                     DecodeCredentials(wk.req.body.obj).Password)
            /\ bookList' = bookList
            /\ workers' =
                 [workers EXCEPT ![w] =
                    Worker("done", wk.req, wk.handler, wk.exists,
                           Response(201, "registered successfully", EmptyMap,
                                    NoCookies))]
       ELSE /\ bookList' = Put(bookList, KeyOf(wk), DecodeBook(wk.req.body.obj))
            /\ credentialList' = credentialList
            /\ workers' =
                 [workers EXCEPT ![w] =
                    Worker("done", wk.req, wk.handler, wk.exists,
                           Response(201, "", EmptyMap, NoCookies))]
    /\ crashed' = crashed
    /\ ConcFrame

\* json.NewEncoder(w).Encode(bookList) begins to range over the map
BeginEnum(w) ==
    /\ ~crashed
    /\ workers[w].pc = "enum"
    /\ workers' = [workers EXCEPT ![w].pc = "enumerating"]
    /\ UNCHANGED <<credentialList, bookList, crashed>>
    /\ ConcFrame

\* the enumeration ends and the listing is written
EndEnum(w) ==
    LET wk == workers[w] IN
    /\ ~crashed
    /\ wk.pc = "enumerating"
    /\ workers' =
         [workers EXCEPT ![w] =
            Worker("done", wk.req, wk.handler, FALSE,
                   getAllBooks(wk.req, credentialList, bookList, now).resp)]
    /\ UNCHANGED <<credentialList, bookList, crashed>>
    /\ ConcFrame

\* the Go runtime finds a map written while another goroutine is inside it
\* and stops the process: "fatal error: concurrent map writes" and the like.
\* The detection is best effort: the run may as well go on.
Fault ==
    /\ ~crashed
    /\ \E a, b \in Workers : Conflict(a, b)
    /\ crashed' = TRUE
    /\ UNCHANGED <<credentialList, bookList, workers>>
    /\ ConcFrame

NextConc ==
    \/ \E w \in Workers : Accept(w)
    \/ \E w \in Workers : BeginLookup(w)
    \/ \E w \in Workers : EndLookup(w)
    \/ \E w \in Workers : BeginInsert(w)
    \/ \E w \in Workers : EndInsert(w)
    \/ \E w \in Workers : BeginEnum(w)
    \/ \E w \in Workers : EndEnum(w)
    \/ Fault

SpecConc == Init /\ [][NextConc]_vars

----------------------------------------------------------------------------
(* updateBook and deleteBook as goroutines, run with the URL parameter     *)
(* ISBN bound to the ISBN the request names                                *)

\* the requests in flight: updates and a delete of one stored book, and a
\* new book under its ISBN
BoundRequests ==
    { Request("PUT", <<"updateBook">>, [ISBN |-> "ISBN 1"], Object(Dune)),
      Request("PUT", <<"updateBook">>, [ISBN |-> "ISBN 1"], Garbage),
      Request("PUT", <<"updateBook">>, EmptyMap, Object(Dune)),
      Request("DELETE", <<"deleteBook">>, [ISBN |-> "ISBN 1"], Garbage),
      Request("POST", <<"newBook">>, EmptyMap,
              Object([name |-> "Emma", isbn |-> "ISBN 1", authors |-> <<Herbert>>])) }

\* the handler runs up to its first access to the store: updateBook and
\* deleteBook return 400 on an empty ISBN parameter
AcceptBound(w) ==
    \E r \in BoundRequests :
        LET handler == Routed(r)
            early   == IF handler \in {"updateBook", "deleteBook"}
                       THEN IF URLParam(WithISBN(r, NamedISBN(r)), "ISBN") = ""
                            THEN Error("Invalid ISBN", 400) ELSE NoResponse
                       ELSE Early(handler, r)
        IN  /\ ~crashed
            /\ workers[w].pc = "idle"
            /\ workers' =
                 [workers EXCEPT ![w] =
                    IF early.status # 0
                    THEN Worker("done", r, handler, FALSE, early)
                    ELSE Worker("lookup", r, handler, FALSE, NoResponse)]
            /\ UNCHANGED <<credentialList, bookList, crashed>>
            /\ ConcFrame

\* _, exists := bookList[ISBN] ends: 404 when absent; updateBook then decodes
\* the body (400) and goes on to its write, deleteBook goes on to its delete
EndLookupBound(w) ==
    LET wk     == workers[w]
        exists == KeyOf(wk) \in DOMAIN bookList
    IN  /\ ~crashed
        /\ wk.pc = "reading"
        /\ wk.handler \in {"updateBook", "deleteBook"}
        /\ workers' =
             [workers EXCEPT ![w] =
                IF ~exists
                THEN Worker("done", wk.req, wk.handler, exists,
                            Error("Book does not exist", 404))
                ELSE IF wk.handler = "updateBook" /\ DecoderErr(wk.req.body)
                THEN Worker("done", wk.req, wk.handler, exists,
                            Error("Cannot decode data", 400))
                ELSE Worker("insert", wk.req, wk.handler, exists, NoResponse)]
        /\ UNCHANGED <<credentialList, bookList, crashed>>
        /\ ConcFrame

\* bookList[ISBN] = newBook, or delete(bookList, ISBN), ends; then the 200
EndWriteBound(w) ==
    LET wk == workers[w] IN
    /\ ~crashed
    /\ wk.pc = "writing"
    /\ wk.handler \in {"updateBook", "deleteBook"}
    /\ bookList' =
         IF wk.handler = "updateBook"
         THEN Put(bookList, KeyOf(wk), DecodeBook(wk.req.body.obj))
         ELSE Delete(bookList, KeyOf(wk))
    /\ workers' =
         [workers EXCEPT ![w] =
            Worker("done", wk.req, wk.handler, wk.exists,
                   IF wk.handler = "updateBook"
                   THEN Response(200, "Book updated successfully", EmptyMap,
                                 NoCookies)
                   ELSE Response(200, "", EmptyMap, NoCookies))]
    /\ UNCHANGED <<credentialList, crashed>>
    /\ ConcFrame

NextConcBound ==
    \/ \E w \in Workers : AcceptBound(w)
    \/ \E w \in Workers : BeginLookup(w)
    \/ \E w \in Workers : EndLookup(w)
    \/ \E w \in Workers : EndLookupBound(w)
    \/ \E w \in Workers : BeginInsert(w)
    \/ \E w \in Workers : EndInsert(w)
    \/ \E w \in Workers : EndWriteBound(w)
    \/ Fault

SpecConcBound == Init /\ [][NextConcBound]_vars

----------------------------------------------------------------------------
(* Properties.  Each is read on the request served last (req, served at   *)
(* req.at against the stores in before), its response (resp) and the      *)
(* stores it left (credentialList, bookList).                             *)

Served(method, base) == req.method = method /\ req.path = <<base>>

\* the credentials a request submits
SubmittedUser == Field(req.body.obj, "username")

SubmittedPassword == Field(req.body.obj, "password")

\* a /signIn request whose body is one JSON object
IsSignIn == Served("POST", "signIn") /\ req.body.kind = "object"

\* a /login request whose body starts with a JSON object
IsLogin == Served("POST", "login") /\ req.body.kind # "garbage"

\* a /newBook request whose body starts with a JSON object
IsAddNewBook == Served("POST", "newBook") /\ req.body.kind # "garbage"

\* the jwt cookies of the response that carry a value
SessionCookies == {c \in resp.cookies : c.Name = "jwt" /\ Len(c.Value) > 0}

\* C1: SignIn(u,p) for a username u not in the credential store responds 201
\* and stores p under u; SignIn(u,p') for a username in the store responds 409
\* and leaves the stored password as it was; and no request of any kind
\* removes or changes a stored credential, so a later SignIn finds it.
C1_SignInOnce ==
    /\ IsSignIn =>
         LET u == SubmittedUser IN
         IF u \notin DOMAIN before.credentialList
         THEN /\ resp.status = 201
              /\ credentialList = Put(before.credentialList, u, SubmittedPassword)
         ELSE /\ resp.status = 409
              /\ credentialList = before.credentialList
    /\ \A u \in DOMAIN before.credentialList :
         /\ u \in DOMAIN credentialList
         /\ credentialList[u] = before.credentialList[u]

\* alice registered with pw1, and a second SignIn(alice, 1234) was refused
C1_Witness ==
    /\ IsSignIn /\ SubmittedUser = "alice" /\ SubmittedPassword = "1234"
    /\ resp.status = 409
    /\ "alice" \notin DOMAIN InitCredentialList
    /\ credentialList["alice"] = "pw1"

\* C2: Login(u,p) responds 200 exactly when u is a key of the credential
\* store and the stored password equals p; 404 when u is unknown and 404 when
\* the password differs.
C2_LoginIffMatch ==
    IsLogin =>
        LET u == SubmittedUser
            known == u \in DOMAIN before.credentialList
            match == known /\ before.credentialList[u] = SubmittedPassword
        IN  /\ resp.status = 200 <=> match
            /\ ~known => resp.status = 404
            /\ (known /\ ~match) => resp.status = 404

\* a user registered during the run logs in
C2_Witness ==
    /\ IsLogin /\ SubmittedUser = "alice" /\ SubmittedPassword = "pw1"
    /\ resp.status = 200
    /\ "alice" \notin DOMAIN InitCredentialList

\* C3: a Login that fails for any reason (undecodable body, unknown user,
\* wrong password, token build failure, signing failure) sets no cookie; a jwt
\* cookie with a non-empty value is set only by the Login that succeeds.  The
\* two library failures are put to the handler itself, on the request served.
C3_NoCookieOnFailure ==
    /\ Served("POST", "login") =>
         /\ resp.status # 200 => resp.cookies = NoCookies
         /\ SessionCookies # {} => resp.status = 200
         /\ \A buildFails \in BOOLEAN, signFails \in BOOLEAN :
              LET out == LoginWith(
                             [method |-> req.method, path |-> req.path,
                              query |-> req.query, body |-> req.body,
                              cookie |-> req.cookie, params |-> EmptyMap],
                             before.credentialList, before.bookList, req.at,
                             buildFails, signFails).resp
              IN  /\ (buildFails \/ signFails) => out.status # 200
                  /\ out.status # 200 => out.cookies = NoCookies
    /\ SessionCookies # {} => Served("POST", "login")

\* a Login with the wrong password of a registered user: 404
C3_Witness ==
    /\ IsLogin /\ SubmittedUser = "sabnaj" /\ SubmittedPassword = "pw1"
    /\ resp.status = 404
    /\ resp.cookies = NoCookies

TwentyMinutes == 20 * 60

LoginSucceeded == Served("POST", "login") /\ resp.status = 200

\* C4: a successful Login at time t sets one cookie, named jwt, whose value
\* is the token signed with the shared key and whose Expires is t + 20
\* minutes, the instant of the token's expiration claim.
C4_CookieExpiry ==
    LoginSucceeded =>
        \E c \in resp.cookies :
            LET verified == JwsVerify(c.Value, HS256, Secret) IN
            /\ resp.cookies = {c}
            /\ c.Name = "jwt"
            /\ ~verified.err
            /\ c.Expires = req.at + TwentyMinutes
            /\ verified.payload.exp = c.Expires

\* a Login that succeeded at a time other than 0
C4_Witness == LoginSucceeded /\ req.at > 0 /\ resp.cookies # NoCookies

\* C5: the token a Login issued validates when presented at the time of
\* issuance and is rejected as Expired once more than 20 minutes have passed.
C5_TokenLifetime ==
    LoginSucceeded =>
        /\ resp.cookies # NoCookies
        /\ \A c \in resp.cookies :
             /\ now = req.at => Validate(c.Value, now) = "Valid"
             /\ now > req.at + TwentyMinutes => Validate(c.Value, now) = "Expired"

\* a token issued at 0 and presented after its lifetime
C5_Witness ==
    /\ LoginSucceeded /\ req.at = 0 /\ now > TwentyMinutes
    /\ \E c \in resp.cookies : Validate(c.Value, now) = "Expired"

\* the book a /newBook request submits
SubmittedName == Field(req.body.obj, "name")

SubmittedISBN == Field(req.body.obj, "isbn")

SubmittedAuthors == SliceField(req.body.obj, "authors")

SubmittedInvalid ==
    SubmittedName = "" \/ SubmittedISBN = "" \/ Len(SubmittedAuthors) = 0

\* C6: AddNewBook responds 400 and leaves the book store unchanged when the
\* name, the ISBN or the author list is empty; else 409 and the store
\* unchanged when the ISBN is already a key; else 201, and the store then maps
\* the ISBN to the submitted book and is otherwise as before.
C6_AddNewBook ==
    IsAddNewBook =>
        IF SubmittedInvalid
        THEN resp.status = 400 /\ bookList = before.bookList
        ELSE IF SubmittedISBN \in DOMAIN before.bookList
        THEN resp.status = 409 /\ bookList = before.bookList
        ELSE /\ resp.status = 201
             /\ bookList =
                  Put(before.bookList, SubmittedISBN, DecodeBook(req.body.obj))

\* a book with a genre was added under a new ISBN
C6_Witness ==
    /\ IsAddNewBook /\ resp.status = 201
    /\ SubmittedISBN \notin DOMAIN before.bookList
    /\ bookList[SubmittedISBN].Genre = "SF"

\* C7 as claimed: adding a book whose ISBN is already in the book store
\* always responds 409, whatever the other fields, and the store is unchanged.
C7_AlwaysConflict ==
    (IsAddNewBook /\ SubmittedISBN \in DOMAIN before.bookList) =>
        resp.status = 409 /\ bookList = before.bookList

\* C7 as amended: adding a book whose ISBN is already in the book store
\* always fails and leaves the stored record unchanged: with 409 when the
\* submitted name and author list are non-empty, with 400 when either is
\* empty.
C7_RejectsExisting ==
    (IsAddNewBook /\ SubmittedISBN \in DOMAIN before.bookList) =>
        /\ resp.status =
             IF SubmittedName = "" \/ Len(SubmittedAuthors) = 0 THEN 400 ELSE 409
        /\ SubmittedISBN \in DOMAIN bookList
        /\ bookList[SubmittedISBN] = before.bookList[SubmittedISBN]

\* a book differing from the stored one in every other field was refused
C7_Witness ==
    /\ IsAddNewBook /\ SubmittedISBN = "ISBN 1" /\ SubmittedName = "Emma"
    /\ Len(SubmittedAuthors) > 0
    /\ resp.status = 409
    /\ bookList["ISBN 1"] = book1

IsUpdate == req.method = "PUT" /\ Len(req.path) > 0 /\ req.path[1] = "updateBook"

IsDelete ==
    req.method = "DELETE" /\ Len(req.path) > 0 /\ req.path[1] = "deleteBook"

\* C8: a PUT /updateBook that names an ISBN of the book store and carries a
\* decodable book responds 200 and replaces the record under that ISBN with
\* the submitted book; when the named ISBN is absent it responds 404 and the
\* store is unchanged.
C8_UpdateReplaces ==
    (IsUpdate /\ NamedISBN(req) # "") =>
        LET i == NamedISBN(req) IN
        IF i \notin DOMAIN before.bookList
        THEN resp.status = 404 /\ bookList = before.bookList
        ELSE req.body.kind # "garbage" =>
                /\ resp.status = 200
                /\ bookList = Put(before.bookList, i, DecodeBook(req.body.obj))

\* C9: once a book with ISBN i was added (i is in the store and was not there
\* at Init), a DELETE /deleteBook naming i responds 200 and removes i from
\* the book store, so that a second DELETE naming i finds it absent.
C9_DeleteRemoves ==
    (/\ IsDelete
     /\ NamedISBN(req) \in DOMAIN before.bookList
     /\ NamedISBN(req) \notin DOMAIN InitBookList) =>
        /\ resp.status = 200
        /\ bookList = Delete(before.bookList, NamedISBN(req))

\* C10: getAllBooks responds 200 with the content of the book store, which is
\* every book added and not since deleted with its latest record, and leaves
\* both stores unchanged.
C10_GetAllBooks ==
    Served("GET", "getBooks") =>
        /\ resp.status = 200
        /\ DOMAIN resp.json = DOMAIN bookList
        /\ \A k \in DOMAIN resp.json : DecodeBook(resp.json[k]) = bookList[k]
        /\ DOMAIN resp.json = DOMAIN ledger
        /\ \A k \in DOMAIN resp.json : DecodeBook(resp.json[k]) = ledger[k]
        /\ bookList = before.bookList
        /\ credentialList = before.credentialList

\* the listing shows a book added during the run beside the two of Init
C10_Witness ==
    /\ Served("GET", "getBooks")
    /\ DOMAIN resp.json = {"ISBN 1", "ISBN 2", "ISBN-9"}
    /\ resp.json["ISBN-9"].name = "Dune"

\* C15: Logout responds 200 whatever the request carries (a body or none, any
\* jwt cookie or none) and whether or not a Login preceded it, and sets one
\* cookie, named jwt, with an empty value and an Expires not later than the
\* time of the response.
C15_LogoutClears ==
    Served("POST", "logout") =>
        /\ resp.status = 200
        /\ \E c \in resp.cookies :
              /\ resp.cookies = {c}
              /\ c.Name = "jwt"
              /\ c.Value = << >>
              /\ c.Expires <= req.at
              /\ req.at <= now

\* a Logout that carries credentials and a live session cookie, late in the run
C15_Witness ==
    /\ Served("POST", "logout")
    /\ req.body.kind = "object"
    /\ req.cookie = Cookie(IssuedToken)
    /\ req.at > 0
    /\ resp.status = 200

\* a request to one of the four book routes
IsBookRequest ==
    /\ Len(req.path) > 0
    /\ req.path[1] \in {"getBooks", "newBook", "updateBook", "deleteBook"}

\* the request served last, sent with the jwt cookie c instead of its own
Resent(c) ==
    [method |-> req.method, path |-> req.path, query |-> req.query,
     body |-> req.body, cookie |-> c]

\* the request served last as a handler sees it when the route binds {ISBN}
\* to i, sent with the jwt cookie c
Bound(c, i) ==
    [method |-> req.method, path |-> req.path, query |-> req.query,
     body |-> req.body, cookie |-> c, params |-> [ISBN |-> i]]

\* status and book store of a result
Outcome(result) == <<result.resp.status, result.bookList>>

C17_LoginLogoutFrame ==
    (Served("POST", "login") \/ Served("POST", "logout")) =>
        /\ credentialList = before.credentialList
        /\ bookList = before.bookList
        /\ \A buildFails \in BOOLEAN, signFails \in BOOLEAN :
              LET out == LoginWith(Bound(req.cookie, ""), before.credentialList,
                                   before.bookList, req.at, buildFails, signFails)
              IN  /\ out.credentialList = before.credentialList
                  /\ out.bookList = before.bookList

\* a user registered during the run logged in, and the stores are as before
C17_Witness ==
    /\ LoginSucceeded
    /\ SubmittedUser = "alice"
    /\ SessionCookies # {}
    /\ DOMAIN credentialList = DOMAIN InitCredentialList \cup {"alice"}

\* the keys at which two maps differ
ChangedKeys(m1, m2) ==
    {k \in (DOMAIN m1) \cup (DOMAIN m2) :
        ~(k \in DOMAIN m1 /\ k \in DOMAIN m2 /\ m1[k] = m2[k])}

\* a result changed nothing, or one store at no key but k
ChangesOnly(result, store, k) ==
    LET books == ChangedKeys(before.bookList, result.bookList)
        creds == ChangedKeys(before.credentialList, result.credentialList)
    IN  /\ IF store = "bookList" THEN books \subseteq {k} /\ creds = {}
           ELSE creds \subseteq {k} /\ books = {}
        /\ result.resp.status >= 400 => books = {} /\ creds = {}

\* what the request served last left behind
Served_result ==
    [resp |-> resp, credentialList |-> credentialList, bookList |-> bookList,
     at |-> req.at]

\* C18: every request changes at most one key of at most one store.
\* AddNewBook changes no book entry but the submitted ISBN and no credential;
\* updateBook and deleteBook, run with an ISBN bound, change no book entry
\* but that ISBN and no credential; SignIn changes no credential but the
\* submitted username and no book; a request answered with an error status
\* changes nothing.
C18_SingleKeyFrame ==
    /\ req # NoRequest =>
         /\ Cardinality(ChangedKeys(before.bookList, bookList))
              + Cardinality(ChangedKeys(before.credentialList, credentialList)) <= 1
         /\ resp.status >= 400 =>
              bookList = before.bookList /\ credentialList = before.credentialList
    /\ Served("POST", "newBook") =>
         ChangesOnly(Served_result, "bookList", SubmittedISBN)
    /\ Served("POST", "signIn") =>
         ChangesOnly(Served_result, "credentialList", SubmittedUser)
    /\ IsUpdate =>
         /\ ChangesOnly(Served_result, "bookList", NamedISBN(req))
         /\ \A i \in NamedISBNs :
              ChangesOnly(updateBook(Bound(req.cookie, i), before.credentialList,
                                     before.bookList, req.at), "bookList", i)
    /\ IsDelete =>
         /\ ChangesOnly(Served_result, "bookList", NamedISBN(req))
         /\ \A i \in NamedISBNs :
              ChangesOnly(deleteBook(Bound(req.cookie, i), before.credentialList,
                                     before.bookList, req.at), "bookList", i)

\* an update whose body carries another ISBN than the one it names: with the
\* ISBN bound, the handler replaces the named record and nothing else
C18_Witness ==
    /\ IsUpdate
    /\ NamedISBN(req) = "ISBN 1"
    /\ Field(req.body.obj, "isbn") = "ISBN-9"
    /\ "ISBN-9" \in DOMAIN before.bookList
    /\ LET out == updateBook(Bound(req.cookie, "ISBN 1"), before.credentialList,
                             before.bookList, req.at)
       IN  /\ out.resp.status = 200
           /\ ChangedKeys(before.bookList, out.bookList) = {"ISBN 1"}

\* C19 (SpecCmd): once "start" has run, the server listens on the port of
\* the --port flag, and on 8080 when the flag was not given.
C19_ListensOnPort ==
    listener.up =>
        listener.port = IF cmdline.given THEN cmdline.port ELSE DefaultPort

\* the header of a three-part token names the "none" algorithm
NamesNone(v) == Len(v) = 3 /\ v[1].alg = NoSignature

\* the third part of a token is the HS256 MAC of the first two under the
\* shared key
CarriesValidSignature(v) ==
    Len(v) = 3 /\ v[3] = Hmac(HS256, Secret, <<v[1], v[2]>>)

\* C20: jws.Verify with the shared HS256 key returns an error and no payload
\* for every token whose header names the "none" algorithm and for every
\* token that carries no valid signature; read on the token of the jwt
\* cookie a request presents.
C20_VerifyRejectsNone ==
    req.cookie.present =>
        LET v   == req.cookie.value
            out == JwsVerify(v, HS256, Secret)
        IN  (NamesNone(v) \/ ~CarriesValidSignature(v)) =>
                out.err /\ out.payload = EmptyMap

\* a login request of user u with password p
LoginAs(u, p) ==
    [method |-> "POST", path |-> <<"login">>, query |-> EmptyMap,
     body |-> Object([username |-> u, password |-> p]), cookie |-> NoCookie,
     params |-> EmptyMap]

\* C25: the token a successful Login issues has the claims audience
\* ["sabnaj"] and expiration = the instant of the login + 20 minutes and no
\* other claim, and a login of any other registered user at the same instant
\* yields the same token.
C25_TokenUserIndependent ==
    LoginSucceeded =>
        /\ \A c \in resp.cookies :
              /\ DOMAIN c.Value[2] = {"aud", "exp"}
              /\ c.Value[2].aud = <<"sabnaj">>
              /\ c.Value[2].exp = req.at + TwentyMinutes
        /\ \A u \in DOMAIN before.credentialList :
              LET out == Login(LoginAs(u, before.credentialList[u]),
                               before.credentialList, before.bookList, req.at)
              IN  /\ out.resp.status = 200
                  /\ out.resp.cookies = resp.cookies

\* a user other than sabnaj logged in, with three users registered
C25_Witness ==
    /\ LoginSucceeded
    /\ SubmittedUser = "alice"
    /\ Cardinality(DOMAIN before.credentialList) = 3
    /\ \E c \in resp.cookies : c.Value[2].aud = <<"sabnaj">>

\* the stores are as Init() leaves them
InitialStores ==
    /\ DOMAIN credentialList = {"sabnaj", "Admin"}
    /\ credentialList["sabnaj"] = "1234"
    /\ credentialList["Admin"] = "5678"
    /\ DOMAIN bookList = {"ISBN 1", "ISBN 2"}
    /\ bookList["ISBN 1"].ISBN = "ISBN 1"
    /\ bookList["ISBN 2"].ISBN = "ISBN 2"

\* the request served last found the stores as Init() leaves them
ServedFromInit == before = Stores(InitCredentialList, InitBookList)

\* C26 as claimed: after Init the credential store holds exactly sabnaj ->
\* 1234 and Admin -> 5678 and the book store exactly the records keyed
\* "ISBN 1" and "ISBN 2"; on these stores Login(sabnaj, 1234) succeeds,
\* SignIn(sabnaj, any password) responds 409, and AddNewBook with ISBN
\* "ISBN 1" responds 409.
C26_InitContent ==
    /\ req = NoRequest => InitialStores
    /\ ServedFromInit =>
         /\ (IsLogin /\ SubmittedUser = "sabnaj" /\ SubmittedPassword = "1234")
               => resp.status = 200
         /\ (IsSignIn /\ SubmittedUser = "sabnaj") => resp.status = 409
         /\ (IsAddNewBook /\ SubmittedISBN = "ISBN 1") => resp.status = 409

\* C26 as amended: the same, with AddNewBook of a book with ISBN "ISBN 1"
\* and a non-empty name and author list responding 409 (400 when the name or
\* the author list is empty).
C26_InitContentValid ==
    /\ req = NoRequest => InitialStores
    /\ ServedFromInit =>
         /\ (IsLogin /\ SubmittedUser = "sabnaj" /\ SubmittedPassword = "1234")
               => resp.status = 200
         /\ (IsSignIn /\ SubmittedUser = "sabnaj") => resp.status = 409
         /\ (IsAddNewBook /\ SubmittedISBN = "ISBN 1") =>
               resp.status = IF SubmittedName = "" \/ Len(SubmittedAuthors) = 0
                             THEN 400 ELSE 409

\* the first request is a SignIn of sabnaj with a password of its own: 409
C26_Witness ==
    /\ ServedFromInit
    /\ InitialStores
    /\ IsSignIn /\ SubmittedUser = "sabnaj" /\ SubmittedPassword = "pw1"
    /\ resp.status = 409

----------------------------------------------------------------------------
(* jws.SplitCompactReader(rdr) on an input and a reader that hands it out  *)
(* in chunks                                                               *)

\* the byte sequences of length up to n over a delimiter and one other byte
RECURSIVE BytesUpTo(_)
BytesUpTo(n) ==
    IF n = 0 THEN {<< >>}
    ELSE LET shorter == BytesUpTo(n - 1)
         IN  shorter \cup {Append(s, b) : s \in shorter, b \in {"a", tokenDelim}}

Inputs == BytesUpTo(MaxBytes)

\* a reader of one of the types readAll knows (*bytes.Reader, *bytes.Buffer,
\* *strings.Reader), or any other io.Reader
ReaderKinds == {"bytes", "stream"}

ServerIdle == UNCHANGED serverVars /\ UNCHANGED <<demo, signing>>

InitSplit ==
    /\ ServerInit
    /\ demo = NoDemo
    /\ signing = NoSigning
    /\ \E src \in Inputs, kind \in ReaderKinds :
          splitting = [NoSplit EXCEPT !.pc = "start", !.kind = kind,
                                      !.src = src, !.rest = src]

\* the function returns: nil parts and an error unless periods is 2
Return(st) ==
    IF st.periods # 2
    THEN [st EXCEPT !.pc = "done", !.err = TRUE, !.protected = << >>,
                    !.payload = << >>, !.signature = << >>]
    ELSE [st EXCEPT !.pc = "done"]

\* if data, ok := readAll(rdr); ok { return SplitCompact(data) }
SplitAll ==
    /\ splitting.pc = "start"
    /\ splitting.kind = "bytes"
    /\ LET out == SplitCompact(splitting.src) IN
       splitting' = [splitting EXCEPT !.pc = "done", !.rest = << >>,
                                      !.chunks = <<Len(splitting.src)>>,
                                      !.err = out.err,
                                      !.protected = out.protected,
                                      !.payload = out.payload,
                                      !.signature = out.signature]
    /\ ServerIdle

\* readAll declines the reader: the loop starts
StartLoop ==
    /\ splitting.pc = "start"
    /\ splitting.kind = "stream"
    /\ splitting' = [splitting EXCEPT !.pc = "loop"]
    /\ ServerIdle

\* one turn of the outer loop: rdr.Read returns the next n bytes, with
\* io.EOF or without; io.EOF comes with the last bytes or on a read of its
\* own.  (A read of no bytes and no error leaves every local as it was.)
ReadChunk ==
    \E n \in 0..Len(splitting.rest), eof \in BOOLEAN :
        /\ splitting.pc = "loop"
        /\ eof => n = Len(splitting.rest)
        /\ n > 0 \/ eof
        /\ LET read == [splitting EXCEPT
                           !.sofar = splitting.sofar \o Slice(splitting.rest, 0, n),
                           !.rest = Slice(splitting.rest, n, Len(splitting.rest)),
                           !.chunks = Append(splitting.chunks, n)]
               st   == ProcessBuffer(read, eof)
           IN  splitting' = IF eof THEN Return(st) ELSE st
        /\ ServerIdle

NextSplit == SplitAll \/ StartLoop \/ ReadChunk

SpecSplit == InitSplit /\ [][NextSplit]_vars /\ WF_vars(NextSplit)

\* the number of delimiters in a byte sequence
Periods(s) == Cardinality({i \in 1..Len(s) : s[i] = tokenDelim})

\* C27: SplitCompact succeeds exactly when its input contains exactly two
\* delimiters, and then the three parts joined with the delimiter are the
\* input; otherwise it returns an error and no parts.
C27_SplitCompact ==
    LET src == splitting.src
        out == SplitCompact(src)
    IN  /\ ~out.err <=> Periods(src) = 2
        /\ ~out.err =>
              out.protected \o <<tokenDelim>> \o out.payload \o <<tokenDelim>>
                  \o out.signature = src
        /\ out.err =>
              out.protected = << >> /\ out.payload = << >> /\ out.signature = << >>

\* an input of two delimiters with an empty first and an empty last part,
\* split through readAll
C27_Witness ==
    /\ splitting.pc = "done"
    /\ splitting.kind = "bytes"
    /\ splitting.src = <<tokenDelim, "a", tokenDelim>>
    /\ ~splitting.err
    /\ splitting.payload = <<"a">>

\* what the call of SplitCompactReader returned
Returned ==
    [err |-> splitting.err, protected |-> splitting.protected,
     payload |-> splitting.payload, signature |-> splitting.signature]

\* C28: for every input and every way the reader delivers it in chunks,
\* SplitCompactReader returns, and with the three parts or the error that
\* SplitCompact returns on the whole input.
C28_ReaderAgrees ==
    /\ [](splitting.pc = "done" => Returned = SplitCompact(splitting.src))
    /\ <>(splitting.pc = "done")

\* an input of three parts delivered in three reads: a delimiter ends the
\* first chunk, the next begins the second, the last data come with io.EOF
C28_Witness ==
    /\ splitting.pc = "done"
    /\ splitting.kind = "stream"
    /\ splitting.src = <<"a", tokenDelim, tokenDelim, "a">>
    /\ splitting.chunks = <<2, 1, 1>>
    /\ ~splitting.err
    /\ splitting.payload = << >>

----------------------------------------------------------------------------
(* The goroutine demo (src/unnamed/part_000): main starts f2 and f3, which *)
(* meet on an unbuffered channel, and waits for both on a WaitGroup        *)

\* for i := 0; i < 5; i++
Appends == 5

\* time.Sleep(4 * time.Second) in f3, time.Sleep(25 * time.Second) in main
F3Sleep == 4
MainSleep == 25

DemoIdle == UNCHANGED serverVars /\ UNCHANGED <<splitting, signing>>

InitDemo ==
    /\ ServerInit
    /\ splitting = NoSplit
    /\ signing = NoSigning
    /\ demo = [NoDemo EXCEPT !.main = "loop"]

\* sl = append(sl, rand.Int()), five times
MainAppend ==
    /\ demo.main = "loop"
    /\ demo' = IF demo.i < Appends
               THEN [demo EXCEPT !.i = demo.i + 1]
               ELSE [demo EXCEPT !.main = "add2"]
    /\ DemoIdle

\* wg.Add(1); go f2(ch, &wg)
MainGoF2 ==
    /\ demo.main = "add2"
    /\ demo' = [demo EXCEPT !.wg = demo.wg + 1, !.f2 = "start", !.main = "add3"]
    /\ DemoIdle

\* wg.Add(1); go f3(ch, &wg)
MainGoF3 ==
    /\ demo.main = "add3"
    /\ demo' = [demo EXCEPT !.wg = demo.wg + 1, !.f3 = "start", !.main = "sleep"]
    /\ DemoIdle

\* time.Sleep(25 * time.Second) begins
MainSleeps ==
    /\ demo.main = "sleep"
    /\ demo' = [demo EXCEPT !.main = "asleep", !.mainwake = demo.clock + MainSleep]
    /\ DemoIdle

\* the sleep is over
MainWakes ==
    /\ demo.main = "asleep"
    /\ demo.clock >= demo.mainwake
    /\ demo' = [demo EXCEPT !.main = "wait"]
    /\ DemoIdle

\* wg.Wait() returns when the counter is 0; then main returns
MainWait ==
    /\ demo.main = "wait"
    /\ demo.wg = 0
    /\ demo' = [demo EXCEPT !.main = "exit"]
    /\ DemoIdle

\* f2 prints and reaches ch <- 1
F2Start ==
    /\ demo.f2 = "start"
    /\ demo' = [demo EXCEPT !.f2 = "send"]
    /\ DemoIdle

\* f3 prints and begins time.Sleep(4 * time.Second)
F3Start ==
    /\ demo.f3 = "start"
    /\ demo' = [demo EXCEPT !.f3 = "asleep", !.f3wake = demo.clock + F3Sleep]
    /\ DemoIdle

\* the sleep is over: f3 reaches a := <-ch
F3Wakes ==
    /\ demo.f3 = "asleep"
    /\ demo.clock >= demo.f3wake
    /\ demo' = [demo EXCEPT !.f3 = "recv"]
    /\ DemoIdle

\* faulty variant: the channel has a buffer, the send does not wait
Rendezvous_buffered ==
    /\ demo.f2 = "send"
    /\ demo' = [demo EXCEPT !.f2 = "sent"]
    /\ DemoIdle

\* the unbuffered channel: ch <- 1 and a := <-ch complete together
Rendezvous ==
    /\ demo.f2 = "send"
    /\ demo.f3 = "recv"
    /\ demo' = [demo EXCEPT !.f2 = "sent", !.f3 = "got", !.a = 1]
    /\ DemoIdle

\* f2 prints and returns: the deferred wg.Done()
F2Done ==
    /\ demo.f2 = "sent"
    /\ demo' = [demo EXCEPT !.f2 = "returned", !.wg = demo.wg - 1,
                            !.done["f2"] = demo.done["f2"] + 1]
    /\ DemoIdle

\* f3 prints and returns: the deferred wg.Done()
F3Done ==
    /\ demo.f3 = "got"
    /\ demo' = [demo EXCEPT !.f3 = "returned", !.wg = demo.wg - 1,
                            !.done["f3"] = demo.done["f3"] + 1]
    /\ DemoIdle

\* a second passes while a goroutine sleeps
DemoTick ==
    /\ \/ demo.main = "asleep" /\ demo.clock < demo.mainwake
       \/ demo.f3 = "asleep" /\ demo.clock < demo.f3wake
    /\ demo' = [demo EXCEPT !.clock = demo.clock + 1]
    /\ DemoIdle

NextDemo ==
    \/ MainAppend
    \/ MainGoF2
    \/ MainGoF3
    \/ MainSleeps
    \/ MainWakes
    \/ MainWait
    \/ F2Start
    \/ F3Start
    \/ F3Wakes
    \/ Rendezvous
    \/ F2Done
    \/ F3Done
    \/ DemoTick

\* the Go scheduler runs every goroutine that can run, and time passes
SpecDemo == InitDemo /\ [][NextDemo]_vars /\ WF_vars(NextDemo)

\* the send of f2 has completed; the receive of f3 has completed
Sent == demo.f2 \in {"sent", "returned"}

Received == demo.f3 \in {"got", "returned"}

\* C29: the demo never deadlocks: the send of f2 completes only together
\* with the receive of f3, f3 receives 1, each of f2 and f3 calls Done once
\* (the counter never goes below 0), and wg.Wait returns, after both, so
\* that main returns.
C29_DemoTerminates ==
    /\ [](/\ Sent <=> Received
          /\ Received => demo.a = 1
          /\ demo.done["f2"] = (IF demo.f2 = "returned" THEN 1 ELSE 0)
          /\ demo.done["f3"] = (IF demo.f3 = "returned" THEN 1 ELSE 0)
          /\ demo.wg >= 0
          /\ demo.main = "exit" =>
                demo.f2 = "returned" /\ demo.f3 = "returned")
    /\ <>(demo.main = "exit")

\* main has returned, after its sleep, with the value received
C29_Witness ==
    /\ demo.main = "exit"
    /\ demo.a = 1
    /\ demo.clock >= MainSleep
    /\ demo.done["f2"] = 1 /\ demo.done["f3"] = 1

----------------------------------------------------------------------------
(* jws: the signer cache (src/unnamed/part_002, makeSigner, removeSigner) *)

SignerIdle == UNCHANGED serverVars /\ UNCHANGED <<splitting, demo>>

InitSigner ==
    /\ ServerInit
    /\ splitting = NoSplit
    /\ demo = NoDemo
    /\ signing = NoSigning

\* a goroutine calls makeSigner(alg, ...) (from jws.Sign) or removeSigner(alg)
CallSigner(c) ==
    /\ signing.calls[c].pc = "idle"
    /\ \E op \in {"makeSigner", "removeSigner"}, alg \in Algs :
          signing' = [signing EXCEPT !.calls[c] =
                        [NoCall EXCEPT !.pc = "lock", !.op = op, !.alg = alg]]
    /\ SignerIdle

\* faulty variant: Lock does not wait for the holder
LockSigner_noWait(c) ==
    /\ signing.calls[c].pc = "lock"
    /\ signing' = [signing EXCEPT !.mu = c, !.calls[c].pc = "locked"]
    /\ SignerIdle

\* muSigner.Lock(): blocks while another goroutine holds the mutex
LockSigner(c) ==
    /\ signing.calls[c].pc = "lock"
    /\ signing.mu = Unlocked
    /\ signing' = [signing EXCEPT !.mu = c, !.calls[c].pc = "locked"]
    /\ SignerIdle

\* signer, ok := signers[alg]
LookupSigner(c) ==
    LET call == signing.calls[c]
        ok == call.alg \in DOMAIN signing.signers
    IN  /\ call.pc = "locked"
        /\ call.op = "makeSigner"
        /\ signing' = [signing EXCEPT
              !.unguarded = signing.unguarded \/ signing.mu # c,
              !.calls[c].gen = signing.removed[call.alg],
              !.calls[c].signer = IF ok THEN signing.signers[call.alg] ELSE NoSigner,
              !.calls[c].pc = IF ok THEN "unlock" ELSE "create"]
        /\ SignerIdle

\* v, err := NewSigner(alg), err == nil; signers[alg] = v; signer = v
StoreSigner(c) ==
    LET call == signing.calls[c]
        v == Cardinality(signing.made) + 1
    IN  /\ call.pc = "create"
        /\ signing' = [signing EXCEPT
              !.unguarded = signing.unguarded \/ signing.mu # c,
              !.made = signing.made \cup
                          {[alg |-> call.alg, gen |-> signing.removed[call.alg],
                            signer |-> v]},
              !.signers = Put(signing.signers, call.alg, v),
              !.calls[c].signer = v,
              !.calls[c].pc = "unlock"]
        /\ SignerIdle

\* v, err := NewSigner(alg), err != nil: muSigner.Unlock(); return nil, err
FailSigner(c) ==
    /\ signing.calls[c].pc = "create"
    /\ signing' = [signing EXCEPT !.mu = Unlocked,
                                  !.calls[c].err = TRUE,
                                  !.calls[c].pc = "done"]
    /\ SignerIdle

\* delete(signers, alg)
DeleteSigner(c) ==
    LET call == signing.calls[c]
    IN  /\ call.pc = "locked"
        /\ call.op = "removeSigner"
        /\ signing' = [signing EXCEPT
              !.unguarded = signing.unguarded \/ signing.mu # c,
              !.signers = Delete(signing.signers, call.alg),
              !.removed[call.alg] = signing.removed[call.alg] + 1,
              !.calls[c].pc = "unlock"]
        /\ SignerIdle

\* muSigner.Unlock(): in makeSigner before the payloadSigner is built, in
\* removeSigner deferred to the return
UnlockSigner(c) ==
    LET call == signing.calls[c]
    IN  /\ call.pc = "unlock"
        /\ signing' = [signing EXCEPT
              !.mu = Unlocked,
              !.calls[c].pc = IF call.op = "makeSigner" THEN "build" ELSE "done"]
        /\ SignerIdle

\* return &payloadSigner{signer: signer, ...}, nil
ReturnSigner(c) ==
    /\ signing.calls[c].pc = "build"
    /\ signing' = [signing EXCEPT !.calls[c].pc = "done"]
    /\ SignerIdle

NextSigner ==
    \E c \in Callers :
        \/ CallSigner(c)
        \/ LockSigner(c)
        \/ LookupSigner(c)
        \/ StoreSigner(c)
        \/ FailSigner(c)
        \/ DeleteSigner(c)
        \/ UnlockSigner(c)
        \/ ReturnSigner(c)

SpecSigner == InitSigner /\ [][NextSigner]_vars

\* the calls of makeSigner that have a signer in hand
Holding == {c \in Callers : signing.calls[c].signer # NoSigner}

\* the goroutine is between Lock and Unlock
InCritical(c) == signing.calls[c].pc \in {"locked", "create", "unlock"}

\* the cache is touched only under the mutex, which one goroutine holds at a
\* time and every return path has released
MutexDiscipline ==
    /\ ~signing.unguarded
    /\ \A c \in Callers : InCritical(c) <=> signing.mu = c
    /\ \A c \in Callers : signing.calls[c].pc = "done" => signing.mu # c

\* one signer per algorithm: NewSigner is called only when the cache has
\* none, so no algorithm has two signers made without a removal between
OneSignerPerAlg ==
    \A x, y \in signing.made :
        x.alg = y.alg /\ x.gen = y.gen => x.signer = y.signer

\* the call has not returned yet
InFlight(c) == signing.calls[c].pc \notin {"idle", "done"}

\* C30 (as stated): the cache is touched only under muSigner, has at most
\* one signer per algorithm, makeSigner calls for an algorithm that are in
\* flight at the same time all use the same signer, and every path
\* releases the mutex.
C30_SignerCache ==
    /\ MutexDiscipline
    /\ OneSignerPerAlg
    /\ \A c, d \in Holding :
          /\ InFlight(c) /\ InFlight(d)
          /\ signing.calls[c].alg = signing.calls[d].alg
          => signing.calls[c].signer = signing.calls[d].signer

\* C30 (amended): as C30, with the calls that share a signer being those
\* with no removeSigner of the algorithm between their lookups; a call
\* after a removal gets a new signer.
C30_SignerCacheUntilRemoved ==
    /\ MutexDiscipline
    /\ OneSignerPerAlg
    /\ \A c, d \in Holding :
          /\ signing.calls[c].alg = signing.calls[d].alg
          /\ signing.calls[c].gen = signing.calls[d].gen
          => signing.calls[c].signer = signing.calls[d].signer

\* two calls in flight at once share the cached signer while a third has
\* returned on the error path, the mutex free
C30_Witness ==
    \E c, d, e \in Callers :
        /\ c # d
        /\ signing.calls[c].pc = "build" /\ signing.calls[d].pc = "build"
        /\ signing.calls[c].alg = signing.calls[d].alg
        /\ signing.calls[c].signer = signing.calls[d].signer
        /\ signing.calls[c].signer # NoSigner
        /\ signing.calls[e].pc = "done" /\ signing.calls[e].err
        /\ signing.mu = Unlocked

----------------------------------------------------------------------------
(* Properties of the goroutines (SpecConc), read on the goroutines that    *)
(* have written their response                                            *)

\* goroutine w ran handler to its response
Done(w, handler) == workers[w].pc = "done" /\ workers[w].handler = handler

\* the password a SignIn goroutine submitted
PasswordOf(w) == DecodeCredentials(workers[w].req.body.obj).Password

\* C11: of two SignIn requests for one username that was not registered, run
\* in two goroutines, exactly one responds 201 and the other 409, and the
\* stored password is the one of the request that got 201.
C11_SignInAtomic ==
    \A a, b \in Workers :
        (/\ a # b
         /\ Done(a, "SignIn") /\ Done(b, "SignIn")
         /\ KeyOf(workers[a]) = KeyOf(workers[b])
         /\ KeyOf(workers[a]) \notin DOMAIN InitCredentialList) =>
            \E x \in {a, b} : \E y \in {a, b} \ {x} :
                /\ workers[x].resp.status = 201
                /\ workers[y].resp.status = 409
                /\ credentialList[KeyOf(workers[x])] = PasswordOf(x)

\* C12: of two AddNewBook requests with one new ISBN and different records,
\* run in two goroutines, exactly one responds 201 and the other 409, and
\* the stored record is the one of the request that got 201.
C12_AddNewBookAtomic ==
    \A a, b \in Workers :
        (/\ a # b
         /\ Done(a, "AddNewBook") /\ Done(b, "AddNewBook")
         /\ Early("AddNewBook", workers[a].req).status = 0
         /\ Early("AddNewBook", workers[b].req).status = 0
         /\ KeyOf(workers[a]) = KeyOf(workers[b])
         /\ workers[a].req # workers[b].req
         /\ KeyOf(workers[a]) \notin DOMAIN InitBookList) =>
            \E x \in {a, b} : \E y \in {a, b} \ {x} :
                /\ workers[x].resp.status = 201
                /\ workers[y].resp.status = 409
                /\ bookList[KeyOf(workers[x])] = DecodeBook(workers[x].req.body.obj)

\* C13: no two goroutines are inside an access to the same store map at the
\* same time when one of the accesses is a write; the enumeration of
\* getAllBooks is such an access.
C13_NoConflictingAccess == \A a, b \in Workers : ~Conflict(a, b)

\* C14: a username registered with password p, by Init or by a SignIn that
\* responded 201, is in the credential store with password p in every later
\* state, however the requests interleave.
C14_CredentialsPersist ==
    /\ \A u \in DOMAIN InitCredentialList :
          u \in DOMAIN credentialList /\ credentialList[u] = InitCredentialList[u]
    /\ \A w \in Workers :
          (Done(w, "SignIn") /\ workers[w].resp.status = 201) =>
              /\ KeyOf(workers[w]) \in DOMAIN credentialList
              /\ credentialList[KeyOf(workers[w])] = PasswordOf(w)

----------------------------------------------------------------------------
(* Properties of the handlers run with an ISBN bound (SpecHandlers) *)

C24_UpdateCheckOrder ==
    IsUpdate =>
        LET i == NamedISBN(req) IN
        /\ i = "" => resp.status = 400 /\ bookList = before.bookList
        /\ (i # "" /\ i \notin DOMAIN before.bookList) =>
              resp.status = 404 /\ bookList = before.bookList
        /\ (i \in DOMAIN before.bookList /\ req.body.kind = "garbage") =>
              resp.status = 400 /\ bookList = before.bookList

\* an update of an absent ISBN with an undecodable body: 404
C24_Witness ==
    /\ IsUpdate
    /\ NamedISBN(req) = "ISBN-9"
    /\ "ISBN-9" \notin DOMAIN before.bookList
    /\ req.body.kind = "garbage"
    /\ resp.status = 404

====
